---- MODULE Spec2Model ----
(***************************************************************************)
(* Model of the template engine of openwisp-controller:                    *)
(*   - AbstractTemplate.save / _update_related_config_status (the cascade) *)
(*   - AbstractTemplate.clean                                              *)
(*   - AbstractTemplate.__get_clone_name                                   *)
(*   - TemplatesVpnMixin.clean_templates_org                               *)
(***************************************************************************)
EXTENDS Integers, Sequences, FiniteSets, TLC

(***************************************************************************)
(* Bounds of the model.                                                    *)
(***************************************************************************)
\* how many times save() is called in all
MaxSaves == 2

Templates == {"t1", "t2"}
\* primary keys of the Config rows
Configs == {1, 2}
Backends == {"netjsonconfig.OpenWrt", "netjsonconfig.OpenWisp"}
Bodies == {"cfgA", "cfgB"}
Names == {"n1", "n2"}
Statuses == {"modified", "applied", "error"}

\* a process that is not inside save()
Resting == {"idle", "done", "failed"}

VARIABLES
    \* ---- database
    db_tpl,            \* persisted Template rows: [exists, backend, config, name]
    config_relations,  \* Template -> set of Configs using it (reverse m2m)
    status,            \* Config.status column
    \* ---- notification sink (signals)
    content_changed,   \* Config -> number of config_modified signals sent
    status_changed,    \* Config -> number of config_status_changed signals sent
    \* ---- one save() call per template at a time
    pc,                \* position of the save() call on each template
    self,              \* the in-memory instance being saved
    update_related_config_status,  \* the local flag of save()
    changing_status,   \* the local list of _update_related_config_status
    todo,              \* configs the for loop has still to visit
    saves,             \* number of save() calls started on each template
    \* ---- history of the current save() call
    pre_tpl,           \* the persisted row when save() was entered
    pre_status,        \* the status column when save() was entered
    alone,             \* no other save() ran between entry and now
    sent_content,      \* content notifications this save() emitted, per config
    sent_status,       \* status notifications this save() emitted, per config
    transitions,       \* Config -> number of times the column went to modified
    unnotified         \* Config -> bulk updates that hit it and are not yet notified

cascadeVars == <<db_tpl, config_relations, status, content_changed, status_changed,
                 pc, self, update_related_config_status, changing_status, todo,
                 saves, pre_tpl, pre_status, alone, sent_content, sent_status,
                 transitions, unnotified>>

VARIABLES
    \* ---- Template.clean()
    tpl,               \* the instance clean() works on
    tpl0,              \* the instance as it was handed to clean()
    clean_result,      \* "pending", "ok" or the field of the ValidationError
    auto_client_calls  \* the calls of vpn.auto_client made so far

cleanVars == <<tpl, tpl0, clean_result, auto_client_calls>>

VARIABLES
    \* ---- TemplatesVpnMixin.clean_templates_org()
    tpl_rows,          \* Template rows: primary key -> [name, organization]
    db_order,          \* the order in which the database returns Template rows
    instance_org,      \* instance.organization of the Config
    templates,         \* the templates proposed, after line 29
    org_result         \* what clean_templates_org returned or raised

orgVars == <<tpl_rows, db_order, instance_org, templates, org_result>>

VARIABLES
    \* ---- AbstractTemplate.__get_clone_name()
    existing,          \* the Template rows: [name, organization]
    original,          \* self, the row that is cloned
    name,              \* the local name
    index,             \* the local index
    probes,            \* number of count() queries made
    clone_pc           \* "start", "loop" or "done"

cloneVars == <<existing, original, name, index, probes, clone_pc>>

vars == <<cascadeVars, cleanVars, orgVars, cloneVars>>

Zero == [c \in Configs |-> 0]

NoRow == [exists |-> FALSE, backend |-> "", config |-> "", name |-> ""]

Row(b, c, n) == [exists |-> TRUE, backend |-> b, config |-> c, name |-> n]

\* the configs of a queryset in primary key order
RECURSIVE Ordered(_)
Ordered(S) ==
    IF S = {} THEN <<>>
    ELSE LET m == CHOOSE x \in S : \A y \in S : x <= y
         IN <<m>> \o Ordered(S \ {m})

(***************************************************************************)
(* Each specification below runs one part of the program; the variables of *)
(* the other parts stay at these values.                                   *)
(***************************************************************************)
NoTemplate == [organization |-> "None", vpn |-> "None", type |-> "generic",
               auto_cert |-> FALSE,
               default_values |-> [kind |-> "null", n |-> 0],
               config |-> [kind |-> "null", n |-> 0]]

CleanIdle ==
    /\ tpl = NoTemplate
    /\ tpl0 = NoTemplate
    /\ clean_result = "idle"
    /\ auto_client_calls = <<>>

NoTemplates == [kind |-> "list", pks |-> {}, items |-> <<>>]

OrgIdle ==
    /\ tpl_rows = <<>>
    /\ db_order = <<>>
    /\ instance_org = "A"
    /\ templates = NoTemplates
    /\ org_result = [state |-> "idle", value |-> NoTemplates, names |-> <<>>]

CloneIdle ==
    /\ existing = {}
    /\ original = [name |-> <<>>, organization |-> "A"]
    /\ name = <<>>
    /\ index = 0
    /\ probes = 0
    /\ clone_pc = "idle"

CascadeIdle ==
    /\ db_tpl = [t \in Templates |-> NoRow]
    /\ config_relations = [t \in Templates |-> {}]
    /\ status = [c \in Configs |-> "applied"]
    /\ content_changed = Zero
    /\ status_changed = Zero
    /\ pc = [t \in Templates |-> "idle"]
    /\ self = [t \in Templates |-> NoRow]
    /\ update_related_config_status = [t \in Templates |-> FALSE]
    /\ changing_status = [t \in Templates |-> {}]
    /\ todo = [t \in Templates |-> <<>>]
    /\ saves = [t \in Templates |-> 0]
    /\ pre_tpl = [t \in Templates |-> NoRow]
    /\ pre_status = [t \in Templates |-> status]
    /\ alone = [t \in Templates |-> TRUE]
    /\ sent_content = [t \in Templates |-> Zero]
    /\ sent_status = [t \in Templates |-> Zero]
    /\ transitions = Zero
    /\ unnotified = Zero

(***************************************************************************)
(* AbstractTemplate.save and _update_related_config_status.                *)
(***************************************************************************)
InitCascade ==
    /\ db_tpl \in [Templates -> {NoRow, Row("netjsonconfig.OpenWrt", "cfgA", "n1")}]
    /\ db_tpl["t1"].exists
    /\ config_relations \in [Templates -> SUBSET Configs]
    \* a template that is not in the database yet has no relations
    /\ \A t \in Templates : ~db_tpl[t].exists => config_relations[t] = {}
    /\ status \in [Configs -> Statuses]
    /\ content_changed = Zero
    /\ status_changed = Zero
    /\ pc = [t \in Templates |-> "idle"]
    /\ self = [t \in Templates |-> NoRow]
    /\ update_related_config_status = [t \in Templates |-> FALSE]
    /\ changing_status = [t \in Templates |-> {}]
    /\ todo = [t \in Templates |-> <<>>]
    /\ saves = [t \in Templates |-> 0]
    /\ pre_tpl = [t \in Templates |-> NoRow]
    /\ pre_status = [t \in Templates |-> status]
    /\ alone = [t \in Templates |-> TRUE]
    /\ sent_content = [t \in Templates |-> Zero]
    /\ sent_status = [t \in Templates |-> Zero]
    /\ transitions = Zero
    /\ unnotified = Zero

SavesStarted == saves["t1"] + saves["t2"]

\* a step of the save() on t interleaves with every other save() in progress
Interleaved(t) ==
    [u \in Templates |-> IF u # t /\ pc[u] \notin Resting THEN FALSE ELSE alone[u]]

\* faulty variant: the name is compared too
AnyFieldDiffers(inst, current) ==
    \E attr \in {"backend", "config", "name"} : inst[attr] # current[attr]

\* save(), lines 107-113: the flag is computed from the persisted row
RenderAffecting(inst, current) ==
    \E attr \in {"backend", "config"} : inst[attr] # current[attr]

\* save(), lines 107-117: compare with the persisted row, write the row, then
\* enter the cascade or return. Nothing but this call reads or writes the row of
\* t, so the lines are one step for every other call. (A super().save() that
\* raises writes nothing and starts no cascade; it is left out.)
Save(t, b, c, n) ==
    /\ pc[t] \in Resting
    /\ SavesStarted < MaxSaves
    /\ saves' = [saves EXCEPT ![t] = @ + 1]
    /\ LET adding == ~db_tpl[t].exists   \* self._state.adding
           flag == IF ~adding THEN RenderAffecting(Row(b, c, n), db_tpl[t]) ELSE FALSE
       IN /\ update_related_config_status' =
                [update_related_config_status EXCEPT ![t] = flag]
          /\ pc' = [pc EXCEPT ![t] = IF flag THEN "snapshot" ELSE "done"]
    /\ self' = [self EXCEPT ![t] = Row(b, c, n)]
    /\ db_tpl' = [db_tpl EXCEPT ![t] = Row(b, c, n)]
    /\ pre_tpl' = [pre_tpl EXCEPT ![t] = db_tpl[t]]
    /\ pre_status' = [pre_status EXCEPT ![t] = status]
    /\ alone' = [Interleaved(t) EXCEPT ![t] = \A u \in Templates \ {t} : pc[u] \in Resting]
    /\ sent_content' = [sent_content EXCEPT ![t] = Zero]
    /\ sent_status' = [sent_status EXCEPT ![t] = Zero]
    /\ changing_status' = [changing_status EXCEPT ![t] = {}]
    /\ todo' = [todo EXCEPT ![t] = <<>>]
    /\ UNCHANGED <<config_relations, status, content_changed, status_changed,
                   transitions, unnotified>>
    /\ UNCHANGED <<cleanVars, orgVars, cloneVars>>

\* faulty variant: the exclude() is forgotten
AllRelated(t) == config_relations[t]

\* line 121: self.config_relations.exclude(status='modified')
NotYetModified(t) == {c \in config_relations[t] : status[c] # "modified"}

\* line 121: changing_status = list(self.config_relations.exclude(status='modified'))
Snapshot(t) ==
    /\ pc[t] = "snapshot"
    /\ changing_status' = [changing_status EXCEPT ![t] = NotYetModified(t)]
    /\ pc' = [pc EXCEPT ![t] = "update"]
    /\ alone' = Interleaved(t)
    /\ UNCHANGED <<db_tpl, config_relations, status, content_changed, status_changed,
                   self, update_related_config_status, todo, saves, pre_tpl,
                   pre_status, sent_content, sent_status, transitions, unnotified>>
    /\ UNCHANGED <<cleanVars, orgVars, cloneVars>>

\* line 122: self.config_relations.update(status='modified'), one statement;
\* line 123: the queryset self.config_relations.all() the loop walks
BulkUpdate(t) ==
    /\ pc[t] = "update"
    /\ status' = [c \in Configs |->
                    IF c \in config_relations[t] THEN "modified" ELSE status[c]]
    /\ transitions' = [c \in Configs |->
                         IF c \in config_relations[t] /\ status[c] # "modified"
                         THEN transitions[c] + 1 ELSE transitions[c]]
    /\ unnotified' = [c \in Configs |->
                        IF c \in config_relations[t]
                        THEN unnotified[c] + 1 ELSE unnotified[c]]
    /\ todo' = [todo EXCEPT ![t] = Ordered(config_relations[t])]
    /\ pc' = [pc EXCEPT ![t] = IF config_relations[t] = {} THEN "done" ELSE "emit"]
    /\ alone' = Interleaved(t)
    /\ UNCHANGED <<db_tpl, config_relations, content_changed, status_changed, self,
                   update_related_config_status, changing_status, saves,
                   pre_tpl, pre_status, sent_content, sent_status>>
    /\ UNCHANGED <<cleanVars, orgVars, cloneVars>>

\* lines 124-128: one iteration of the loop
Emit(t) ==
    /\ pc[t] = "emit"
    /\ todo[t] # <<>>
    /\ LET config == Head(todo[t])
           changed == config \in changing_status[t]
       IN /\ content_changed' = [content_changed EXCEPT ![config] = @ + 1]
          /\ sent_content' = [sent_content EXCEPT ![t][config] = @ + 1]
          /\ unnotified' = [unnotified EXCEPT ![config] = @ - 1]
          /\ status_changed' = [status_changed EXCEPT ![config] =
                                   IF changed THEN @ + 1 ELSE @]
          /\ sent_status' = [sent_status EXCEPT ![t][config] =
                                   IF changed THEN @ + 1 ELSE @]
    /\ todo' = [todo EXCEPT ![t] = Tail(@)]
    /\ pc' = [pc EXCEPT ![t] = IF Tail(todo[t]) = <<>> THEN "done" ELSE "emit"]
    \* the locals are gone when the method returns
    /\ changing_status' = [changing_status EXCEPT ![t] =
                              IF Tail(todo[t]) = <<>> THEN {} ELSE @]
    /\ alone' = Interleaved(t)
    /\ UNCHANGED <<db_tpl, config_relations, status, self,
                   update_related_config_status, saves, pre_tpl,
                   pre_status, transitions>>
    /\ UNCHANGED <<cleanVars, orgVars, cloneVars>>

\* a storage operation or a signal receiver raises: the exception leaves save();
\* save() opens no transaction, so what was written stays written
Fail(t) ==
    /\ pc[t] \in {"snapshot", "update", "emit"}
    /\ pc' = [pc EXCEPT ![t] = "failed"]
    \* the locals are gone when the exception leaves the method
    /\ changing_status' = [changing_status EXCEPT ![t] = {}]
    /\ todo' = [todo EXCEPT ![t] = <<>>]
    /\ alone' = Interleaved(t)
    /\ UNCHANGED <<db_tpl, config_relations, status, content_changed, status_changed,
                   self, update_related_config_status, saves,
                   pre_tpl, pre_status, sent_content, sent_status, transitions,
                   unnotified>>
    /\ UNCHANGED <<cleanVars, orgVars, cloneVars>>

\* what one edit form can submit: the persisted row with at most one field changed
Edits(t) ==
    IF ~db_tpl[t].exists
    THEN {Row(b, "cfgA", "n1") : b \in Backends}
    ELSE {[db_tpl[t] EXCEPT !.backend = b] : b \in Backends}
         \cup {[db_tpl[t] EXCEPT !.config = c] : c \in Bodies}
         \cup {[db_tpl[t] EXCEPT !.name = n] : n \in Names}

\* save() called on t after one edit
SaveEdited(t) == \E e \in Edits(t) : Save(t, e.backend, e.config, e.name)

Next ==
    \/ \E t \in Templates : SaveEdited(t)
    \/ \E t \in Templates : Snapshot(t)
    \/ \E t \in Templates : BulkUpdate(t)
    \/ \E t \in Templates : Emit(t)
    \/ \E t \in Templates : Fail(t)

Init == InitCascade /\ CleanIdle /\ OrgIdle /\ CloneIdle

Spec == Init /\ [][Next]_vars

(***************************************************************************)
(* The cascade: claims C1 to C5.                                           *)
(***************************************************************************)
\* the save() in progress on t (or the last one) wrote a backend or config that
\* differs from the row it found
ChangedRender(t) ==
    /\ pre_tpl[t].exists
    /\ \/ db_tpl[t].backend # pre_tpl[t].backend
       \/ db_tpl[t].config # pre_tpl[t].config

CompletedAlone(t) == pc[t] = "done" /\ saves[t] > 0 /\ alone[t]

\* C1: after a save of an existing template with a changed backend or config,
\* with no other save interleaved, every dependent config is modified, has got
\* exactly one content notification, and has got one status notification iff
\* its status was not modified when the save began; no other config got any.
C1_CascadeOutcome ==
    \A t \in Templates :
        (CompletedAlone(t) /\ ChangedRender(t)) =>
            \A c \in Configs :
                IF c \in config_relations[t]
                THEN /\ status[c] = "modified"
                     /\ sent_content[t][c] = 1
                     /\ sent_status[t][c] =
                          (IF pre_status[t][c] # "modified" THEN 1 ELSE 0)
                ELSE sent_content[t][c] = 0 /\ sent_status[t][c] = 0

\* a cascade over one config that was modified and one that was applied
C1_Witness ==
    \E t \in Templates :
        /\ CompletedAlone(t) /\ ChangedRender(t)
        /\ config_relations[t] = Configs
        /\ pre_status[t][1] = "modified" /\ pre_status[t][2] = "applied"
        /\ status_changed[1] = 0 /\ status_changed[2] = 1

\* C2: a step of a save() that creates the template, or that leaves backend and
\* config as persisted, sends no notification, changes no status and ends the
\* save(); so does every repetition of it.
C2_NoCascade ==
    [][\A t \in Templates :
          ((saves'[t] # saves[t] \/ pc'[t] # pc[t]) /\ ~ChangedRender(t)')
          => /\ status' = status
             /\ content_changed' = content_changed
             /\ status_changed' = status_changed
             /\ pc'[t] = "done"]_vars

\* the second save of a template that changed only its name, with a dependent
\* config that is still applied and was never notified
C2_Witness ==
    \E t \in Templates :
        /\ saves[t] = 2 /\ pc[t] = "done"
        /\ pre_tpl[t].exists /\ ~ChangedRender(t)
        /\ db_tpl[t].name # pre_tpl[t].name
        /\ \E c \in config_relations[t] :
              status[c] = "applied" /\ content_changed[c] = 0 /\ status_changed[c] = 0

\* C3: no state shows a config whose status the bulk update of a cascade has
\* set while the notification of that cascade for it is still to be sent.
C3_NoUnnotifiedModified ==
    \A c \in Configs : unnotified[c] = 0

\* C4: a save() that failed has left the template row and the status of every
\* dependent config as they were when it began.
C4_FailureRollsBack ==
    \A t \in Templates :
        pc[t] = "failed" =>
            /\ db_tpl[t] = pre_tpl[t]
            /\ alone[t] => \A c \in config_relations[t] : status[c] = pre_status[t][c]

\* C5: once two saves of templates that share a config have both returned, the
\* shared config is modified and has got as many status notifications as its
\* status went to modified.
C5_OncePerTransition ==
    (\A t \in Templates : pc[t] = "done" /\ ChangedRender(t)) =>
        \A c \in config_relations["t1"] \cap config_relations["t2"] :
            /\ status[c] = "modified"
            /\ status_changed[c] = transitions[c]

(***************************************************************************)
(* AbstractTemplate.clean.                                                 *)
(***************************************************************************)
\* largest size of a JSON value handed to clean()
MaxJsonSize == 1

Orgs == {"A", "B"}
\* a foreign key is "None" or names a row
OrgRefs == {"None"} \cup Orgs
Vpns == {"vpnShared", "vpnA", "vpnB"}
VpnRefs == {"None"} \cup Vpns

\* vpn.organization
VpnOrg(v) == CASE v = "vpnA" -> "A" [] v = "vpnB" -> "B" [] OTHER -> "None"

\* JSON values by kind and size: the entries of an object, the length of a
\* string or list, the value of a number, 0 and 1 for false and true
JsonKinds == {"object", "string", "number", "bool", "list"}
JsonValues ==
    {[kind |-> "null", n |-> 0]}
    \cup {[kind |-> k, n |-> i] : k \in JsonKinds, i \in 0..MaxJsonSize}

EmptyObject == [kind |-> "object", n |-> 0]

\* Python truth of a value, as `not x` tests it (lines 139, 145, 152)
Truthy(v) == v.kind # "null" /\ v.n # 0

\* isinstance(x, dict), line 141
IsDict(v) == v.kind = "object"

\* the config bodies a template can hold: none, {} or a non-empty object
ConfigBodies == {[kind |-> "null", n |-> 0]}
                \cup {[kind |-> "object", n |-> i] : i \in 0..MaxJsonSize}

\* self._validate_org_relation('vpn'): TRUE when it returns, FALSE when it raises
ValidateOrgRelation(t) ==
    \/ t.vpn = "None"
    \/ VpnOrg(t.vpn) = "None"
    \/ VpnOrg(t.vpn) = t.organization

\* vpn.auto_client(auto_cert=...): a fragment no input body equals
AutoClient(v, auto_cert) == [kind |-> "object", n |-> MaxJsonSize + 1]

\* super().clean(): returns or raises, and leaves the fields below alone
BaseCleanResults == {"ok", "config"}

\* faulty variant: auto_cert is left as it was
ClearVpnOnly(t) == [t EXCEPT !.vpn = "None"]

\* lines 150-151
ClearVpnFields(t) == [t EXCEPT !.vpn = "None", !.auto_cert = FALSE]

\* faulty variant: the body is derived whenever the type is vpn
NeedsAutoClientAnyBody(t) == t.type = "vpn"

\* line 152
NeedsAutoClient(t) == t.type = "vpn" /\ ~Truthy(t.config)

\* lines 139-140
CoerceDefaultValues(v) == IF ~Truthy(v) THEN EmptyObject ELSE v

InitClean ==
    /\ tpl0 \in [organization : OrgRefs, vpn : VpnRefs, type : {"generic", "vpn"},
                  auto_cert : BOOLEAN, default_values : JsonValues,
                  config : ConfigBodies]
    /\ tpl = tpl0
    /\ clean_result = "pending"
    /\ auto_client_calls = <<>>

\* clean(), lines 138-154, with `base` the outcome of super().clean()
Clean(base) ==
    /\ clean_result = "pending"
    /\ LET t1 == [tpl EXCEPT !.default_values = CoerceDefaultValues(@)]
           t2 == IF t1.type # "vpn" THEN ClearVpnFields(t1) ELSE t1
           call == [vpn |-> t2.vpn, auto_cert |-> t2.auto_cert]
           t3 == [t2 EXCEPT !.config = AutoClient(t2.vpn, t2.auto_cert)]
       IN IF ~ValidateOrgRelation(tpl)
          THEN /\ clean_result' = "organization"
               /\ UNCHANGED <<tpl, auto_client_calls>>
          ELSE IF ~IsDict(t1.default_values)
          THEN /\ clean_result' = "default_values"
               /\ tpl' = t1
               /\ UNCHANGED auto_client_calls
          ELSE IF t1.type = "vpn" /\ t1.vpn = "None"
          THEN /\ clean_result' = "vpn"
               /\ tpl' = t1
               /\ UNCHANGED auto_client_calls
          ELSE IF NeedsAutoClient(t2)
          THEN /\ auto_client_calls' = Append(auto_client_calls, call)
               /\ tpl' = t3
               /\ clean_result' = base
          ELSE /\ tpl' = t2
               /\ clean_result' = base
               /\ UNCHANGED auto_client_calls
    /\ UNCHANGED tpl0
    /\ UNCHANGED <<cascadeVars, orgVars, cloneVars>>

NextClean == \E base \in BaseCleanResults : Clean(base)

InitCleanOnly == InitClean /\ CascadeIdle /\ OrgIdle /\ CloneIdle

SpecClean == InitCleanOnly /\ [][NextClean]_vars

(***************************************************************************)
(* clean(): claims C7 to C9.                                               *)
(***************************************************************************)
Cleaned == clean_result \notin {"idle", "pending"}

\* C7 as stated: whatever a template that is not of type vpn held, after
\* clean() its vpn is None and its auto_cert is False.
C7_NonVpnAlwaysCleared ==
    (Cleaned /\ tpl0.type # "vpn") =>
        tpl.vpn = "None" /\ tpl.auto_cert = FALSE

\* C7 amended: a template that is not of type vpn has vpn None and auto_cert
\* False after clean(), unless clean() raised on the VPN's organization or on
\* default_values, and then both fields are as they were.
C7_NonVpnClearedPastEarlyChecks ==
    (Cleaned /\ tpl0.type # "vpn") =>
        IF clean_result \in {"organization", "default_values"}
        THEN tpl.vpn = tpl0.vpn /\ tpl.auto_cert = tpl0.auto_cert
        ELSE tpl.vpn = "None" /\ tpl.auto_cert = FALSE

\* a generic template that held a VPN and auto_cert, validated and cleared
C7_Witness ==
    /\ clean_result = "ok"
    /\ tpl0.type = "generic" /\ tpl0.vpn = "vpnA" /\ tpl0.auto_cert
    /\ tpl.vpn = "None" /\ ~tpl.auto_cert

\* C8: when clean() reaches the default_values step, None becomes {}, an
\* object is kept as it is, and every other value raises on default_values
\* and is left as it is.
C8_DefaultValuesStep ==
    (Cleaned /\ clean_result # "organization") =>
        CASE tpl0.default_values.kind = "null" ->
                 tpl.default_values = EmptyObject /\ clean_result # "default_values"
          [] tpl0.default_values.kind = "object" ->
                 tpl.default_values = tpl0.default_values
                 /\ clean_result # "default_values"
          [] OTHER ->
                 clean_result = "default_values"
                 /\ tpl.default_values = tpl0.default_values

EmptyBody(t) == t.config.kind = "null" \/ t.config.n = 0

\* C9 as stated: auto_client is called iff the type is vpn and the body is
\* empty (a vpn template without a VPN raises before any call); a non-empty
\* body is kept; a generic template never calls it.
C9_AutoClientIff ==
    Cleaned =>
        /\ (auto_client_calls # <<>>) <=>
              (tpl0.type = "vpn" /\ EmptyBody(tpl0) /\ tpl0.vpn # "None")
        /\ (tpl0.type = "vpn" /\ tpl0.vpn = "None") =>
              (clean_result # "ok" /\ auto_client_calls = <<>>)
        /\ ~EmptyBody(tpl0) => tpl.config = tpl0.config
        /\ tpl0.type # "vpn" => auto_client_calls = <<>>

\* C9 amended: auto_client is called, once, with the template's vpn and
\* auto_cert, iff the type is vpn, the body is empty and clean() did not raise
\* before on the VPN's organization, on default_values or on the missing VPN;
\* the body is then what it returned; a non-empty body is kept; a generic
\* template never calls it.
C9_AutoClientIffReached ==
    Cleaned =>
        /\ auto_client_calls =
              (IF /\ tpl0.type = "vpn"
                  /\ EmptyBody(tpl0)
                  /\ clean_result \notin {"organization", "default_values", "vpn"}
               THEN <<[vpn |-> tpl0.vpn, auto_cert |-> tpl0.auto_cert]>>
               ELSE <<>>)
        /\ auto_client_calls # <<>> =>
              tpl.config = AutoClient(tpl0.vpn, tpl0.auto_cert)
        /\ (tpl0.type = "vpn" /\ tpl0.vpn = "None") =>
              (clean_result # "ok" /\ auto_client_calls = <<>>)
        /\ ~EmptyBody(tpl0) => tpl.config = tpl0.config
        /\ tpl0.type # "vpn" => auto_client_calls = <<>>

\* a vpn template with an empty body whose body auto_client filled in
C9_Witness ==
    /\ clean_result = "ok"
    /\ tpl0.type = "vpn" /\ tpl0.vpn = "vpnA" /\ tpl0.organization = "A"
    /\ tpl0.config = EmptyObject /\ tpl0.auto_cert
    /\ Len(auto_client_calls) = 1
    /\ tpl.config # tpl0.config

(***************************************************************************)
(* TemplatesVpnMixin.clean_templates_org.                                  *)
(***************************************************************************)
\* how many Template rows exist
NumTemplates == 3

TemplatePks == 1..NumTemplates

\* strings are sequences of characters
Letters == <<"a", "b", "c", "d", "e">>

\* Template.name of the row with primary key pk
TemplateName(pk) == <<"t", Letters[pk]>>

\* the sequences over S that hold no element twice
NoDupSeqs(S) ==
    {q \in UNION {[1..n -> S] : n \in 0..Cardinality(S)} :
        \A i, j \in DOMAIN q : i # j => q[i] # q[j]}

\* the value of the elements of a sequence
Range(q) == {q[i] : i \in DOMAIN q}

\* a plain list of Template instances (the admin) or a QuerySet (pk_set was a set)
ListOf(items) == [kind |-> "list", pks |-> Range(items), items |-> items]

QuerySet(pks) == [kind |-> "queryset", pks |-> pks, items |-> <<>>]

\* the rows a QuerySet yields when it is evaluated, or the elements of a list
Evaluate(v) ==
    IF v.kind = "list" THEN v.items
    ELSE SelectSeq(db_order, LAMBDA pk : pk \in v.pks)

\* faulty variant: exclude(organization=None) is forgotten
InvalidsSharedToo(qs, organization) ==
    QuerySet({pk \in qs.pks : tpl_rows[pk].organization # organization})

\* lines 39-41: templates.exclude(organization=instance.organization)
\*                       .exclude(organization=None)
Invalids(qs, organization) ==
    QuerySet({pk \in qs.pks : /\ tpl_rows[pk].organization # organization
                               /\ tpl_rows[pk].organization # "None"})

\* lines 43-46: names = '{0}, {1}'.format(names, invalid['name']) over the rows,
\* then names[2:]
RECURSIVE FormatNames(_, _)
FormatNames(names, rows) ==
    IF rows = <<>> THEN names
    ELSE FormatNames(names \o <<",", " ">> \o TemplateName(Head(rows)), Tail(rows))

NamesOf(rows) ==
    LET names == FormatNames(<<>>, rows)
    IN SubSeq(names, 3, Len(names))

InitOrg ==
    /\ tpl_rows \in [TemplatePks -> [organization : OrgRefs]]
    /\ db_order \in {q \in NoDupSeqs(TemplatePks) : Len(q) = NumTemplates}
    \* Config is an OrgMixin model: its organization is never None
    /\ instance_org \in Orgs
    /\ templates \in {ListOf(q) : q \in NoDupSeqs(TemplatePks)}
                      \cup {QuerySet(S) : S \in SUBSET TemplatePks}
    /\ org_result = [state |-> "pending", value |-> NoTemplates, names |-> <<>>]

\* clean_templates_org, lines 30-53
CleanTemplatesOrg ==
    /\ org_result.state = "pending"
    /\ LET qs == IF templates.kind # "queryset"
                 THEN QuerySet(Range(templates.items))   \* filter(pk__in=pk_list)
                 ELSE templates
           invalids == Invalids(qs, instance_org)
       IN IF Evaluate(templates) = <<>>      \* if not templates
          THEN org_result' = [state |-> "returned", value |-> templates, names |-> <<>>]
          ELSE IF Evaluate(qs) # <<>> /\ Evaluate(invalids) # <<>>
          THEN org_result' = [state |-> "raised", value |-> NoTemplates,
                              names |-> NamesOf(Evaluate(invalids))]
          ELSE org_result' = [state |-> "returned", value |-> qs, names |-> <<>>]
    /\ UNCHANGED <<tpl_rows, db_order, instance_org, templates>>
    /\ UNCHANGED <<cascadeVars, cleanVars, cloneVars>>

NextOrg == CleanTemplatesOrg

InitOrgOnly == InitOrg /\ CascadeIdle /\ CleanIdle /\ CloneIdle

SpecOrg == InitOrgOnly /\ [][NextOrg]_vars

(***************************************************************************)
(* clean_templates_org: claim C6.                                          *)
(***************************************************************************)
\* the template with primary key pk belongs to another organization
Foreign(pk) ==
    tpl_rows[pk].organization # "None" /\ tpl_rows[pk].organization # instance_org

\* strings joined with ", "
RECURSIVE CommaJoined(_)
CommaJoined(strings) ==
    IF strings = <<>> THEN <<>>
    ELSE IF Len(strings) = 1 THEN strings[1]
    ELSE strings[1] \o <<",", " ">> \o CommaJoined(Tail(strings))

NameSeq(rows) == [i \in DOMAIN rows |-> TemplateName(rows[i])]

\* C6 as stated: the call raises iff a proposed template is foreign, the error
\* names the foreign templates in the order they were proposed in, and
\* otherwise the templates returned are the proposed ones, none dropped or added.
C6_TemplatesOrgAsProposed ==
    org_result.state \in {"returned", "raised"} =>
        LET proposed == Evaluate(templates)
            foreign == SelectSeq(proposed, Foreign)
        IN IF foreign # <<>>
           THEN /\ org_result.state = "raised"
                /\ org_result.names = CommaJoined(NameSeq(foreign))
           ELSE /\ org_result.state = "returned"
                /\ Range(Evaluate(org_result.value)) = Range(proposed)

\* C6 amended: the call raises iff a proposed template is foreign, the error
\* names the foreign templates and no other, in the order the database returns
\* them in; otherwise a QuerySet or an empty proposal is returned as it is, and
\* a non-empty list is returned as the QuerySet of its templates.
C6_TemplatesOrgInDbOrder ==
    org_result.state \in {"returned", "raised"} =>
        LET foreign == SelectSeq(db_order,
                                 LAMBDA pk : pk \in templates.pks /\ Foreign(pk))
        IN IF foreign # <<>>
           THEN /\ org_result.state = "raised"
                /\ org_result.names = CommaJoined(NameSeq(foreign))
           ELSE /\ org_result.state = "returned"
                /\ org_result.value =
                     (IF templates.kind = "queryset" \/ templates.items = <<>>
                      THEN templates
                      ELSE QuerySet(templates.pks))

\* a list naming two foreign templates (and a shared one) in an order that is not
\* the database's, refused with both names
C6_Witness ==
    /\ org_result.state = "raised"
    /\ templates = ListOf(<<2, 3, 1>>)
    /\ db_order = <<1, 2, 3>>
    /\ instance_org = "A"
    /\ tpl_rows[1].organization = "B"
    /\ tpl_rows[2].organization = "B"
    /\ tpl_rows[3].organization = "None"
    /\ org_result.names = <<"t", "a", ",", " ", "t", "b">>

(***************************************************************************)
(* AbstractTemplate.__get_clone_name.                                      *)
(***************************************************************************)
\* the largest clone number a Template row is named with
MaxClones == 4

DecimalDigits == <<"0", "1", "2", "3", "4", "5", "6", "7", "8", "9">>

\* str(i) for i >= 0, as '{}'.format(i) writes it
RECURSIVE Str(_)
Str(i) ==
    IF i < 10 THEN <<DecimalDigits[i + 1]>>
    ELSE Str(i \div 10) \o <<DecimalDigits[(i % 10) + 1]>>

\* line 185: '{} (Clone)'.format(self.name)
FormatClone(n) == n \o <<" ", "(", "C", "l", "o", "n", "e", ")">>

\* line 188: '{} (Clone {})'.format(self.name, index)
FormatCloneIndex(n, i) ==
    n \o <<" ", "(", "C", "l", "o", "n", "e", " ">> \o Str(i) \o <<")">>

Base == <<"B", "a", "s", "e">>

\* the names the Template rows may have
CandidateNames ==
    {Base, FormatClone(Base), FormatClone(FormatClone(Base))}
    \cup {FormatCloneIndex(Base, k) : k \in 2..MaxClones}

\* faulty variant: the lookup is scoped to the organization of the template
NameTakenInOrg(n) ==
    \E row \in existing : row.name = n /\ row.organization = original.organization

\* line 187: self.__class__.objects.filter(name=name).count()
NameTaken(n) == \E row \in existing : row.name = n

InitClone ==
    \* unique_together: a row is its organization and its name
    /\ existing \in SUBSET [name : CandidateNames, organization : Orgs]
    \* the template being cloned is a row
    /\ original \in existing
    /\ original.name \in {Base, FormatClone(Base)}
    /\ name = <<>>
    /\ index = 0
    /\ probes = 0
    /\ clone_pc = "start"

\* lines 185-186
CloneStart ==
    /\ clone_pc = "start"
    /\ name' = FormatClone(original.name)
    /\ index' = 2
    /\ clone_pc' = "loop"
    /\ UNCHANGED <<existing, original, probes>>
    /\ UNCHANGED <<cascadeVars, cleanVars, orgVars>>

\* line 187, the count() finds a row: lines 188-189
CloneTaken ==
    /\ clone_pc = "loop"
    /\ NameTaken(name)
    /\ probes' = probes + 1
    /\ name' = FormatCloneIndex(original.name, index)
    /\ index' = index + 1
    /\ UNCHANGED <<existing, original, clone_pc>>
    /\ UNCHANGED <<cascadeVars, cleanVars, orgVars>>

\* line 187, the count() finds no row: line 190
CloneFree ==
    /\ clone_pc = "loop"
    /\ ~NameTaken(name)
    /\ probes' = probes + 1
    /\ clone_pc' = "done"
    /\ UNCHANGED <<existing, original, name, index>>
    /\ UNCHANGED <<cascadeVars, cleanVars, orgVars>>

NextClone == CloneStart \/ CloneTaken \/ CloneFree

InitCloneOnly == InitClone /\ CascadeIdle /\ CleanIdle /\ OrgIdle

\* the method is straight-line code and a loop: it keeps running until it returns
SpecClone ==
    /\ InitCloneOnly
    /\ [][NextClone]_vars
    /\ WF_vars(NextClone)

(***************************************************************************)
(* __get_clone_name: claim C10.                                            *)
(***************************************************************************)
\* the k-th name of "<name> (Clone)", "<name> (Clone 2)", "<name> (Clone 3)", ...
CloneNameAt(n, k) ==
    IF k = 1 THEN n \o <<" ", "(", "C", "l", "o", "n", "e", ")">>
    ELSE n \o <<" ", "(", "C", "l", "o", "n", "e", " ">> \o Str(k) \o <<")">>

\* the names of the rows of all organizations
ExistingNames == {row.name : row \in existing}

\* the first name of the sequence that no row has
FirstUnusedCloneName ==
    LET k == CHOOSE i \in 1..(Cardinality(existing) + 1) :
                 /\ CloneNameAt(original.name, i) \notin ExistingNames
                 /\ \A j \in 1..(i - 1) : CloneNameAt(original.name, j) \in ExistingNames
    IN CloneNameAt(original.name, k)

\* C10: the method returns; it never makes more count() queries than there are
\* rows plus one; the name it returns is the first of the sequence that no row
\* of any organization has, so it is no row's name.
C10_CloneName ==
    /\ [](probes <= Cardinality(existing) + 1)
    /\ [](clone_pc = "done" =>
            name = FirstUnusedCloneName /\ name \notin ExistingNames)
    /\ <>(clone_pc = "done")

\* the spec's example: Base, Base (Clone) and Base (Clone 2) exist, the first
\* clone in another organization
C10_Witness ==
    /\ clone_pc = "done"
    /\ original = [name |-> Base, organization |-> "A"]
    /\ existing = {original,
                   [name |-> FormatClone(Base), organization |-> "B"],
                   [name |-> FormatCloneIndex(Base, 2), organization |-> "A"]}
    /\ name = <<"B", "a", "s", "e", " ", "(", "C", "l", "o", "n", "e", " ", "3", ")">>
    /\ probes = 3

====
